---- MODULE Spec2Model ----
(***************************************************************************)
(* The weekly usage-quota cache of app.py, its request handlers            *)
(* check_credit and use_credit, and the background persistence of the      *)
(* cache to the Hub dataset (persist_data_to_hub, background_persister).   *)
(*                                                                         *)
(* usage_data_cache is a Python list of dicts.  A dict is an object with   *)
(* an identity: the list copy taken by persist_data_to_hub copies the      *)
(* references, not the dicts.  The model keeps the dicts in the sequence   *)
(* cache (records are only ever appended, so the position of a dict in     *)
(* the sequence is its identity) and a list copy is a sequence of          *)
(* positions.                                                              *)
(***************************************************************************)
EXTENDS Integers, Sequences, FiniteSets, TLC

\* ---------------------------------------------------------------- constants

USAGE_LIMIT == 5

one_week_seconds == 7 * 24 * 60 * 60

\* ------------------------------------------------------------------- bounds

\* Number of threads that each run one use_credit call (specification ConcSpec).
NumCallers == 6

\* Number of request-handler threads of the other specifications.
NumHandlers == 1

\* Number of threads that call persist_data_to_hub.
NumPersisters == 2

\* The wall clock takes the values w * one_week_seconds and w * one_week_seconds + 1
\* for w in 0..MaxWeeks.
MaxWeeks == 1

Ids == {"u1", "u2"}

\* The identifiers used where the persisters run too.
PersistIds == {"u1"}

Callers == 1..NumCallers

Handlers == 1..NumHandlers

Persisters == 1..NumPersisters

\* Bound: the keys in ALL_GEMINI_API_KEYS.
NumKeys == 2

\* Bound: the threads that serve enhancement requests.
NumRequests == 2

Requests == 1..NumRequests

\* gemini_keys after lines 47-50, each key named by its number.
KeyPool == [k \in 1..NumKeys |-> k]

\* The thread that imports the module and runs its start-up code.
MainThread == <<"main", 0>>

DocKinds == {"missing", "empty", "malformed", "array"}

\* Arrays the dataset file may hold at start-up: documents an earlier run of
\* persist_data_to_hub uploaded.
StartDocs ==
    { <<>>,
      <<[id |-> "u1", count |-> USAGE_LIMIT, week_start |-> 0]>>,
      <<[id |-> "u2", count |-> 1, week_start |-> 0],
        [id |-> "u1", count |-> 2, week_start |-> 0]>> }

Instants == {w * one_week_seconds + d : w \in 0..MaxWeeks, d \in {0, 1}}

\* -------------------------------------------------------------------- state

VARIABLES
    cache,            \* usage_data_cache: sequence of [id, count, week_start]
    data_changed,     \* the threading.Event data_changed
    cache_lock,       \* holder of cache_lock
    persistence_lock, \* holder of persistence_lock
    api,              \* TRUE iff HF_TOKEN was found and api is an HfApi
    now,              \* time.time()
    remote,           \* the dataset file video_usage_data.json on the Hub
    hub_up,           \* whether api.upload_file currently succeeds
    req,              \* per handler thread: position and locals of its request
    resp,             \* per handler thread: the JSON body it returned last
    entry,            \* per handler thread: the cache as it was when the request
                      \* in progress entered cache_lock (history variable)
    granted,          \* per identifier: the "success" answers of use_credit since the
                      \* window of its record last started (history variable)
    per,              \* per persister thread: position and locals
    snap,             \* per persister thread: the contents of the cache at the
                      \* instant of its list copy (history variable)
    retry,            \* TRUE iff the last finished upload failed (history variable)
    boot,             \* position of the module's start-up code (lines 318-326)
    remote_doc,       \* what the dataset file is: "missing", "empty" (no text),
                      \* "malformed" (not JSON) or "array" (the JSON array remote)
    hub_silent,       \* TRUE while the Hub leaves a request without any answer
    gemini_keys,      \* the list gemini_keys
    key_index,        \* the global key_index, as a position in gemini_keys from 0
    enh               \* per enhancement request thread: position and locals

vars == <<cache, data_changed, cache_lock, persistence_lock, api, now, remote,
          hub_up, req, resp, entry, granted, per, snap, retry,
          boot, remote_doc, hub_silent, gemini_keys, key_index, enh>>

sharedVars == <<cache, data_changed, cache_lock, persistence_lock, api, now, remote, hub_up>>

NoThread == <<"none", 0>>

HandlerThread(t) == <<"handler", t>>

PersisterThread(p) == <<"persister", p>>

IdleReq == [pc |-> "idle", user_id |-> "", now |-> 0, user_record |-> 0, count |-> 0]

NoResp == [status |-> "none", credits_remaining |-> 0, limit_reached |-> FALSE,
           reset_timestamp |-> <<>>]

IdlePer == [pc |-> "sleep", data_to_write |-> <<>>, pos |-> 0, count |-> 0, temp_f |-> <<>>]

\* No handler thread is in a request and every persister sleeps.
StoreInitThreads ==
    /\ req = [t \in Callers |-> IdleReq]
    /\ resp = [t \in Callers |-> NoResp]
    /\ entry = [t \in Callers |-> <<>>]
    /\ granted = [id \in Ids |-> 0]
    /\ per = [p \in Persisters |-> IdlePer]
    /\ snap = [p \in Persisters |-> <<>>]
    /\ retry = FALSE

\* What enhance_animation_prompt keeps between its steps: the number of the
\* attempt, current_key_log_index, whether cleaned_response has been assigned,
\* the HTTP status it returned last (0 for none) and the keys that have
\* failed for the request (history).
IdleEnh == [pc |-> "idle", attempt |-> 0, current_key_log_index |-> 0,
            cleaned_response |-> FALSE, status |-> 0, tried |-> {}]

\* The module-level assignments of lines 23-44, everything but the dataset.
StoreInit ==
    /\ cache = <<>>
    /\ data_changed = FALSE
    /\ cache_lock = NoThread
    /\ persistence_lock = NoThread
    /\ api \in BOOLEAN
    /\ now = 0
    /\ hub_up \in BOOLEAN
    /\ hub_silent = FALSE
    /\ key_index = 0
    /\ enh = [r \in Requests |-> IdleEnh]
    /\ StoreInitThreads

\* The application serves requests: start-up has found an empty array in the
\* dataset and has started background_persister; the keys are configured.
Init ==
    /\ StoreInit
    /\ remote = <<>>
    /\ remote_doc = "array"
    /\ boot = "served"
    /\ gemini_keys = KeyPool

\* ------------------------------------------------------------------ helpers

Max(a, b) == IF a >= b THEN a ELSE b

Min(a, b) == IF a <= b THEN a ELSE b

\* next((user for user in usage_data_cache if user.get('id') == user_id), None):
\* the position of the first record with that id, 0 for None.
FindRecord(c, user_id) ==
    LET S == {i \in 1..Len(c) : c[i].id = user_id}
    IN  IF S = {} THEN 0 ELSE CHOOSE i \in S : \A j \in S : i <= j

WindowExpired_AtBoundary(week_start, t_now) == week_start <= (t_now - one_week_seconds)

\* user_record.get('week_start', 0) < (now - one_week_seconds)
WindowExpired(week_start, t_now) == week_start < (t_now - one_week_seconds)

LimitReached_OffByOne(count) == count > USAGE_LIMIT

\* user_record.get('count', 0) >= USAGE_LIMIT
LimitReached(count) == count >= USAGE_LIMIT

ResetTimestamp_NoWeek(week_start) == week_start

\* user_record.get('week_start', now) + one_week_seconds
ResetTimestamp(week_start) == week_start + one_week_seconds

CacheLockFree_NoLock == TRUE

\* "with cache_lock:" is entered only when no thread holds the lock.
CacheLockFree == cache_lock = NoThread

PersistenceLockFree_NoLock == TRUE

\* "with persistence_lock:" is entered only when no thread holds the lock.
PersistenceLockFree == persistence_lock = NoThread

handlerVars == <<req, resp, entry, granted>>

enhanceVars == <<gemini_keys, key_index, enh>>

persisterVars == <<per, snap, retry>>

\* ------------------------------------------------------- use_credit (289-315)

\* Lines 296-297: "with cache_lock:" is entered and now = time.time() is read.
UC_Enter(t, id) ==
    /\ req[t].pc = "idle"
    /\ CacheLockFree
    /\ cache_lock' = HandlerThread(t)
    /\ req' = [req EXCEPT ![t] = [IdleReq EXCEPT !.pc = "uc_lookup", !.user_id = id, !.now = now]]
    /\ resp' = [resp EXCEPT ![t] = NoResp]
    /\ entry' = [entry EXCEPT ![t] = cache]
    /\ UNCHANGED granted
    /\ UNCHANGED <<cache, data_changed, persistence_lock, api, now, remote, hub_up>>
    /\ UNCHANGED persisterVars
    /\ UNCHANGED <<boot, remote_doc, hub_silent>>
    /\ UNCHANGED enhanceVars

\* Lines 299-301: the record is looked up and the window test is evaluated.
UC_Lookup(t) ==
    /\ req[t].pc = "uc_lookup"
    /\ LET i == FindRecord(cache, req[t].user_id)
       IN  req' = [req EXCEPT ![t].user_record = i,
                              ![t].pc = IF i = 0 THEN "uc_new"
                                        ELSE IF WindowExpired(cache[i].week_start, req[t].now)
                                             THEN "uc_reset_count"
                                             ELSE "uc_check"]
    /\ UNCHANGED <<resp, entry, granted>>
    /\ UNCHANGED sharedVars
    /\ UNCHANGED persisterVars
    /\ UNCHANGED <<boot, remote_doc, hub_silent>>
    /\ UNCHANGED enhanceVars

UC_ResetCount_Forgotten(t) ==
    /\ req[t].pc = "uc_reset_count"
    /\ req' = [req EXCEPT ![t].pc = "uc_reset_week"]
    /\ UNCHANGED <<resp, entry, granted>>
    /\ UNCHANGED sharedVars
    /\ UNCHANGED persisterVars
    /\ UNCHANGED <<boot, remote_doc, hub_silent>>
    /\ UNCHANGED enhanceVars

\* Line 302: user_record['count'] = 0
UC_ResetCount(t) ==
    /\ req[t].pc = "uc_reset_count"
    /\ cache' = [cache EXCEPT ![req[t].user_record].count = 0]
    /\ req' = [req EXCEPT ![t].pc = "uc_reset_week"]
    /\ UNCHANGED <<resp, entry, granted>>
    /\ UNCHANGED <<data_changed, cache_lock, persistence_lock, api, now, remote, hub_up>>
    /\ UNCHANGED persisterVars
    /\ UNCHANGED <<boot, remote_doc, hub_silent>>
    /\ UNCHANGED enhanceVars

\* Line 303: user_record['week_start'] = now
UC_ResetWeek(t) ==
    /\ req[t].pc = "uc_reset_week"
    /\ cache' = [cache EXCEPT ![req[t].user_record].week_start = req[t].now]
    /\ req' = [req EXCEPT ![t].pc = "uc_check"]
    /\ granted' = [granted EXCEPT ![req[t].user_id] = 0]
    /\ UNCHANGED <<resp, entry>>
    /\ UNCHANGED <<data_changed, cache_lock, persistence_lock, api, now, remote, hub_up>>
    /\ UNCHANGED persisterVars
    /\ UNCHANGED <<boot, remote_doc, hub_silent>>
    /\ UNCHANGED enhanceVars

\* Lines 304-306: the limit test; when the limit is reached the handler returns
\* "limit_reached" from inside the with block, which releases cache_lock.
UC_Check(t) ==
    /\ req[t].pc = "uc_check"
    /\ LET r == cache[req[t].user_record]
       IN  IF LimitReached(r.count)
           THEN /\ resp' = [resp EXCEPT ![t] =
                               [status |-> "limit_reached", credits_remaining |-> 0,
                                limit_reached |-> FALSE,
                                reset_timestamp |-> <<ResetTimestamp(r.week_start)>>]]
                /\ req' = [req EXCEPT ![t] = IdleReq]
                /\ entry' = [entry EXCEPT ![t] = <<>>]
                /\ cache_lock' = NoThread
           ELSE /\ req' = [req EXCEPT ![t].pc = "uc_inc_read"]
                /\ UNCHANGED <<resp, entry, cache_lock>>
    /\ UNCHANGED granted
    /\ UNCHANGED <<cache, data_changed, persistence_lock, api, now, remote, hub_up>>
    /\ UNCHANGED persisterVars
    /\ UNCHANGED <<boot, remote_doc, hub_silent>>
    /\ UNCHANGED enhanceVars

\* Line 307, first half of "user_record['count'] += 1": the count is read.
UC_IncRead(t) ==
    /\ req[t].pc = "uc_inc_read"
    /\ req' = [req EXCEPT ![t].count = cache[req[t].user_record].count,
                          ![t].pc = "uc_inc_write"]
    /\ UNCHANGED <<resp, entry, granted>>
    /\ UNCHANGED sharedVars
    /\ UNCHANGED persisterVars
    /\ UNCHANGED <<boot, remote_doc, hub_silent>>
    /\ UNCHANGED enhanceVars

\* Line 307, second half: the count read, plus one, is stored.
UC_IncWrite(t) ==
    /\ req[t].pc = "uc_inc_write"
    /\ cache' = [cache EXCEPT ![req[t].user_record].count = req[t].count + 1]
    /\ req' = [req EXCEPT ![t].pc = "uc_finish"]
    /\ UNCHANGED <<resp, entry, granted>>
    /\ UNCHANGED <<data_changed, cache_lock, persistence_lock, api, now, remote, hub_up>>
    /\ UNCHANGED persisterVars
    /\ UNCHANGED <<boot, remote_doc, hub_silent>>
    /\ UNCHANGED enhanceVars

\* Lines 309-310: a record for an unknown identifier is appended.
UC_New(t) ==
    /\ req[t].pc = "uc_new"
    /\ cache' = Append(cache, [id |-> req[t].user_id, count |-> 1, week_start |-> req[t].now])
    /\ req' = [req EXCEPT ![t].user_record = Len(cache) + 1, ![t].pc = "uc_finish"]
    /\ UNCHANGED <<resp, entry, granted>>
    /\ UNCHANGED <<data_changed, cache_lock, persistence_lock, api, now, remote, hub_up>>
    /\ UNCHANGED persisterVars
    /\ UNCHANGED <<boot, remote_doc, hub_silent>>
    /\ UNCHANGED enhanceVars

UC_Finish_NoSet(t) ==
    /\ req[t].pc = "uc_finish"
    /\ resp' = [resp EXCEPT ![t] =
                   [status |-> "success",
                    credits_remaining |-> USAGE_LIMIT - cache[req[t].user_record].count,
                    limit_reached |-> FALSE,
                    reset_timestamp |-> <<>>]]
    /\ cache_lock' = NoThread
    /\ req' = [req EXCEPT ![t] = IdleReq]
    /\ entry' = [entry EXCEPT ![t] = <<>>]
    /\ granted' = [granted EXCEPT ![req[t].user_id] = granted[req[t].user_id] + 1]
    /\ UNCHANGED <<cache, data_changed, persistence_lock, api, now, remote, hub_up>>
    /\ UNCHANGED persisterVars
    /\ UNCHANGED <<boot, remote_doc, hub_silent>>
    /\ UNCHANGED enhanceVars

\* Lines 312-315: credits_remaining is computed, data_changed is set, the with
\* block ends and "success" is returned.
UC_Finish(t) ==
    /\ req[t].pc = "uc_finish"
    /\ resp' = [resp EXCEPT ![t] =
                   [status |-> "success",
                    credits_remaining |-> USAGE_LIMIT - cache[req[t].user_record].count,
                    limit_reached |-> FALSE,
                    reset_timestamp |-> <<>>]]
    /\ data_changed' = TRUE
    /\ cache_lock' = NoThread
    /\ req' = [req EXCEPT ![t] = IdleReq]
    /\ entry' = [entry EXCEPT ![t] = <<>>]
    /\ granted' = [granted EXCEPT ![req[t].user_id] = granted[req[t].user_id] + 1]
    /\ UNCHANGED <<cache, persistence_lock, api, now, remote, hub_up>>
    /\ UNCHANGED persisterVars
    /\ UNCHANGED <<boot, remote_doc, hub_silent>>
    /\ UNCHANGED enhanceVars

\* One step of a use_credit request other than its start.
UC_Step(t) ==
    \/ UC_Lookup(t)
    \/ UC_ResetCount(t)
    \/ UC_ResetWeek(t)
    \/ UC_Check(t)
    \/ UC_IncRead(t)
    \/ UC_IncWrite(t)
    \/ UC_New(t)
    \/ UC_Finish(t)

\* ----------------------------------------------------- check_credit (265-287)

\* Lines 271-272: "with cache_lock:" is entered and now = time.time() is read.
CC_Enter(t, id) ==
    /\ req[t].pc = "idle"
    /\ CacheLockFree
    /\ cache_lock' = HandlerThread(t)
    /\ req' = [req EXCEPT ![t] = [IdleReq EXCEPT !.pc = "cc_lookup", !.user_id = id, !.now = now]]
    /\ resp' = [resp EXCEPT ![t] = NoResp]
    /\ entry' = [entry EXCEPT ![t] = cache]
    /\ UNCHANGED granted
    /\ UNCHANGED <<cache, data_changed, persistence_lock, api, now, remote, hub_up>>
    /\ UNCHANGED persisterVars
    /\ UNCHANGED <<boot, remote_doc, hub_silent>>
    /\ UNCHANGED enhanceVars

\* Lines 274-279: the record is looked up and the window test is evaluated.
CC_Lookup(t) ==
    /\ req[t].pc = "cc_lookup"
    /\ LET i == FindRecord(cache, req[t].user_id)
       IN  req' = [req EXCEPT ![t].user_record = i,
                              ![t].pc = IF i = 0 THEN "cc_eval"
                                        ELSE IF WindowExpired(cache[i].week_start, req[t].now)
                                             THEN "cc_reset_count"
                                             ELSE "cc_eval"]
    /\ UNCHANGED <<resp, entry, granted>>
    /\ UNCHANGED sharedVars
    /\ UNCHANGED persisterVars
    /\ UNCHANGED <<boot, remote_doc, hub_silent>>
    /\ UNCHANGED enhanceVars

\* Line 280: user_record['count'] = 0
CC_ResetCount(t) ==
    /\ req[t].pc = "cc_reset_count"
    /\ cache' = [cache EXCEPT ![req[t].user_record].count = 0]
    /\ req' = [req EXCEPT ![t].pc = "cc_reset_week"]
    /\ UNCHANGED <<resp, entry, granted>>
    /\ UNCHANGED <<data_changed, cache_lock, persistence_lock, api, now, remote, hub_up>>
    /\ UNCHANGED persisterVars
    /\ UNCHANGED <<boot, remote_doc, hub_silent>>
    /\ UNCHANGED enhanceVars

CC_ResetWeek_Forgotten(t) ==
    /\ req[t].pc = "cc_reset_week"
    /\ req' = [req EXCEPT ![t].pc = "cc_set_dirty"]
    /\ granted' = [granted EXCEPT ![req[t].user_id] = 0]
    /\ UNCHANGED <<resp, entry>>
    /\ UNCHANGED <<cache, data_changed, cache_lock, persistence_lock, api, now, remote, hub_up>>
    /\ UNCHANGED persisterVars
    /\ UNCHANGED <<boot, remote_doc, hub_silent>>
    /\ UNCHANGED enhanceVars

\* Line 281: user_record['week_start'] = now
CC_ResetWeek(t) ==
    /\ req[t].pc = "cc_reset_week"
    /\ cache' = [cache EXCEPT ![req[t].user_record].week_start = req[t].now]
    /\ req' = [req EXCEPT ![t].pc = "cc_set_dirty"]
    /\ granted' = [granted EXCEPT ![req[t].user_id] = 0]
    /\ UNCHANGED <<resp, entry>>
    /\ UNCHANGED <<data_changed, cache_lock, persistence_lock, api, now, remote, hub_up>>
    /\ UNCHANGED persisterVars
    /\ UNCHANGED <<boot, remote_doc, hub_silent>>
    /\ UNCHANGED enhanceVars

CC_SetDirty_Forgotten(t) ==
    /\ req[t].pc = "cc_set_dirty"
    /\ req' = [req EXCEPT ![t].pc = "cc_eval"]
    /\ UNCHANGED <<resp, entry, granted>>
    /\ UNCHANGED <<cache, data_changed, cache_lock, persistence_lock, api, now, remote, hub_up>>
    /\ UNCHANGED persisterVars
    /\ UNCHANGED <<boot, remote_doc, hub_silent>>
    /\ UNCHANGED enhanceVars

\* Line 282: data_changed.set()
CC_SetDirty(t) ==
    /\ req[t].pc = "cc_set_dirty"
    /\ data_changed' = TRUE
    /\ req' = [req EXCEPT ![t].pc = "cc_eval"]
    /\ UNCHANGED <<resp, entry, granted>>
    /\ UNCHANGED <<cache, cache_lock, persistence_lock, api, now, remote, hub_up>>
    /\ UNCHANGED persisterVars
    /\ UNCHANGED <<boot, remote_doc, hub_silent>>
    /\ UNCHANGED enhanceVars

\* Lines 275-277 and 283-287: the answer is computed, the with block ends and
\* the answer is returned.
CC_Eval(t) ==
    /\ req[t].pc = "cc_eval"
    /\ LET i == req[t].user_record
           credits_remaining == IF i = 0 THEN USAGE_LIMIT
                                ELSE Max(0, USAGE_LIMIT - cache[i].count)
           limit_reached == i # 0 /\ credits_remaining = 0
           reset_timestamp == IF limit_reached THEN ResetTimestamp(cache[i].week_start) ELSE 0
       IN  resp' = [resp EXCEPT ![t] =
                       [status |-> "checked", credits_remaining |-> credits_remaining,
                        limit_reached |-> limit_reached,
                        reset_timestamp |-> <<reset_timestamp>>]]
    /\ cache_lock' = NoThread
    /\ req' = [req EXCEPT ![t] = IdleReq]
    /\ entry' = [entry EXCEPT ![t] = <<>>]
    /\ UNCHANGED granted
    /\ UNCHANGED <<cache, data_changed, persistence_lock, api, now, remote, hub_up>>
    /\ UNCHANGED persisterVars
    /\ UNCHANGED <<boot, remote_doc, hub_silent>>
    /\ UNCHANGED enhanceVars

\* One step of a check_credit request other than its start.
CC_Step(t) ==
    \/ CC_Lookup(t)
    \/ CC_ResetCount(t)
    \/ CC_ResetWeek(t)
    \/ CC_SetDirty(t)
    \/ CC_Eval(t)

\* time.time() advances.
Tick ==
    /\ \E later \in Instants : later > now /\ now' = later
    /\ UNCHANGED <<cache, data_changed, cache_lock, persistence_lock, api, remote, hub_up>>
    /\ UNCHANGED handlerVars
    /\ UNCHANGED persisterVars
    /\ UNCHANGED <<boot, remote_doc, hub_silent>>
    /\ UNCHANGED enhanceVars

\* time.time() advances by a week or more: the clock as seen at instants at
\* least a week apart (where the persisters run, the instants within a week
\* are not told apart).
TickWeek == Tick /\ now' - now >= one_week_seconds

\* -------------------------------- persist_data_to_hub (90-124), its caller (126-130)

\* Lines 129-130 and 93: time.sleep(30) has returned, persist_data_to_hub is
\* called and enters "with persistence_lock:".
P_Wake(p) ==
    /\ per[p].pc = "sleep"
    /\ PersistenceLockFree
    /\ persistence_lock' = PersisterThread(p)
    /\ per' = [per EXCEPT ![p].pc = "p_check"]
    /\ UNCHANGED <<cache, data_changed, cache_lock, api, now, remote, hub_up>>
    /\ UNCHANGED <<snap, retry>>
    /\ UNCHANGED handlerVars
    /\ UNCHANGED <<boot, remote_doc, hub_silent>>
    /\ UNCHANGED enhanceVars

\* Lines 94-95: nothing to do unless data_changed is set and api exists; the
\* return leaves the with block and releases persistence_lock.
P_Check(p) ==
    /\ per[p].pc = "p_check"
    /\ IF ~data_changed \/ ~api
       THEN /\ per' = [per EXCEPT ![p] = IdlePer]
            /\ persistence_lock' = NoThread
       ELSE /\ per' = [per EXCEPT ![p].pc = "p_lock_cache"]
            /\ UNCHANGED persistence_lock
    /\ UNCHANGED <<cache, data_changed, cache_lock, api, now, remote, hub_up>>
    /\ UNCHANGED <<snap, retry>>
    /\ UNCHANGED handlerVars
    /\ UNCHANGED <<boot, remote_doc, hub_silent>>
    /\ UNCHANGED enhanceVars

\* Line 97: "with cache_lock:" is entered.
P_LockCache(p) ==
    /\ per[p].pc = "p_lock_cache"
    /\ CacheLockFree
    /\ cache_lock' = PersisterThread(p)
    /\ per' = [per EXCEPT ![p].pc = "p_copy"]
    /\ UNCHANGED <<cache, data_changed, persistence_lock, api, now, remote, hub_up>>
    /\ UNCHANGED <<snap, retry>>
    /\ UNCHANGED handlerVars
    /\ UNCHANGED <<boot, remote_doc, hub_silent>>
    /\ UNCHANGED enhanceVars

\* Line 99: data_to_write = list(usage_data_cache), a new list of the same dicts.
P_Copy(p) ==
    /\ per[p].pc = "p_copy"
    /\ per' = [per EXCEPT ![p].data_to_write = [i \in 1..Len(cache) |-> i],
                          ![p].pc = "p_clear"]
    /\ snap' = [snap EXCEPT ![p] = cache]
    /\ UNCHANGED sharedVars
    /\ UNCHANGED retry
    /\ UNCHANGED handlerVars
    /\ UNCHANGED <<boot, remote_doc, hub_silent>>
    /\ UNCHANGED enhanceVars

\* Line 100: data_changed.clear(); the with block ends and releases cache_lock.
\* Lines 105-106: the temporary file is opened, empty.
P_Clear(p) ==
    /\ per[p].pc = "p_clear"
    /\ data_changed' = FALSE
    /\ cache_lock' = NoThread
    /\ per' = [per EXCEPT ![p].pos = 1, ![p].temp_f = <<>>,
                          ![p].pc = IF Len(per[p].data_to_write) = 0 THEN "p_upload"
                                    ELSE "p_dump_count"]
    /\ UNCHANGED <<cache, persistence_lock, api, now, remote, hub_up>>
    /\ UNCHANGED <<snap, retry>>
    /\ UNCHANGED handlerVars
    /\ UNCHANGED <<boot, remote_doc, hub_silent>>
    /\ UNCHANGED enhanceVars

\* Line 107, json.dump(data_to_write, temp_f, ...): the pure-Python encoder walks
\* the dicts of the list without holding cache_lock.  It reads the "count" of
\* the next dict ...
P_DumpCount(p) ==
    /\ per[p].pc = "p_dump_count"
    /\ per' = [per EXCEPT ![p].count = cache[per[p].data_to_write[per[p].pos]].count,
                          ![p].pc = "p_dump_week"]
    /\ UNCHANGED sharedVars
    /\ UNCHANGED <<snap, retry>>
    /\ UNCHANGED handlerVars
    /\ UNCHANGED <<boot, remote_doc, hub_silent>>
    /\ UNCHANGED enhanceVars

\* ... and then its "week_start", and writes the object to the temporary file.
P_DumpWeek(p) ==
    /\ per[p].pc = "p_dump_week"
    /\ LET d == cache[per[p].data_to_write[per[p].pos]]
       IN  per' = [per EXCEPT
                      ![p].temp_f = Append(per[p].temp_f,
                                           [id |-> d.id, count |-> per[p].count,
                                            week_start |-> d.week_start]),
                      ![p].pos = per[p].pos + 1,
                      ![p].count = 0,
                      ![p].pc = IF per[p].pos = Len(per[p].data_to_write)
                                THEN "p_upload" ELSE "p_dump_count"]
    /\ UNCHANGED sharedVars
    /\ UNCHANGED <<snap, retry>>
    /\ UNCHANGED handlerVars
    /\ UNCHANGED <<boot, remote_doc, hub_silent>>
    /\ UNCHANGED enhanceVars

\* Lines 110-117 and 122-124: api.upload_file replaces the file of the dataset;
\* the temporary file is removed and persistence_lock is released.
P_UploadOk(p) ==
    /\ per[p].pc = "p_upload"
    /\ ~hub_silent
    /\ hub_up
    /\ remote' = per[p].temp_f
    /\ persistence_lock' = NoThread
    /\ per' = [per EXCEPT ![p] = IdlePer]
    /\ snap' = [snap EXCEPT ![p] = <<>>]
    /\ retry' = FALSE
    /\ UNCHANGED <<cache, data_changed, cache_lock, api, now, hub_up>>
    /\ UNCHANGED handlerVars
    /\ remote_doc' = "array"
    /\ UNCHANGED <<boot, hub_silent>>
    /\ UNCHANGED enhanceVars

P_UploadFail_NoRearm(p) ==
    /\ per[p].pc = "p_upload"
    /\ ~hub_silent
    /\ ~hub_up
    /\ persistence_lock' = NoThread
    /\ per' = [per EXCEPT ![p] = IdlePer]
    /\ snap' = [snap EXCEPT ![p] = <<>>]
    /\ retry' = TRUE
    /\ UNCHANGED <<cache, data_changed, cache_lock, api, now, remote, hub_up>>
    /\ UNCHANGED handlerVars
    /\ UNCHANGED <<boot, remote_doc, hub_silent>>
    /\ UNCHANGED enhanceVars

\* Lines 118-124: api.upload_file raises; data_changed.set() (cache_lock is not
\* held here), the temporary file is removed and persistence_lock is released.
P_UploadFail(p) ==
    /\ per[p].pc = "p_upload"
    /\ ~hub_silent
    /\ ~hub_up
    /\ data_changed' = TRUE
    /\ persistence_lock' = NoThread
    /\ per' = [per EXCEPT ![p] = IdlePer]
    /\ snap' = [snap EXCEPT ![p] = <<>>]
    /\ retry' = TRUE
    /\ UNCHANGED <<cache, cache_lock, api, now, remote, hub_up>>
    /\ UNCHANGED handlerVars
    /\ UNCHANGED <<boot, remote_doc, hub_silent>>
    /\ UNCHANGED enhanceVars

\* One step of a thread running background_persister.
P_Step(p) ==
    \/ P_Wake(p)
    \/ P_Check(p)
    \/ P_LockCache(p)
    \/ P_Copy(p)
    \/ P_Clear(p)
    \/ P_DumpCount(p)
    \/ P_DumpWeek(p)
    \/ P_UploadOk(p)
    \/ P_UploadFail(p)

\* The Hub starts or stops accepting uploads.
HubChange ==
    /\ hub_up' = ~hub_up
    /\ UNCHANGED <<cache, data_changed, cache_lock, persistence_lock, api, now, remote>>
    /\ UNCHANGED handlerVars
    /\ UNCHANGED persisterVars
    /\ UNCHANGED <<boot, remote_doc, hub_silent>>
    /\ UNCHANGED enhanceVars

\* ----------------------------------------------------------- specifications

\* Request handlers, persisters, the clock and the Hub, all interleaved.
Next ==
    \/ \E t \in Handlers, id \in Ids : UC_Enter(t, id)
    \/ \E t \in Handlers : UC_Step(t)
    \/ \E t \in Handlers, id \in Ids : CC_Enter(t, id)
    \/ \E t \in Handlers : CC_Step(t)
    \/ \E p \in Persisters : P_Step(p)
    \/ Tick
    \/ HubChange

Spec == Init /\ [][Next]_vars

\* NumCallers threads each run one use_credit call for the same identifier,
\* starting from an empty cache; the clock stands still.
ConcInit == Init /\ api /\ hub_up

ConcNext ==
    \E t \in Callers :
        \/ resp[t].status = "none" /\ UC_Enter(t, "u1")
        \/ UC_Lookup(t)
        \/ UC_Check(t)
        \/ UC_IncRead(t)
        \/ UC_IncWrite(t)
        \/ UC_New(t)
        \/ UC_Finish(t)

ConcSpec == ConcInit /\ [][ConcNext]_vars

\* The request handlers and the clock, without the persisters.
QuotaNext ==
    \/ \E t \in Handlers, id \in Ids : UC_Enter(t, id)
    \/ \E t \in Handlers : UC_Step(t)
    \/ \E t \in Handlers, id \in Ids : CC_Enter(t, id)
    \/ \E t \in Handlers : CC_Step(t)
    \/ Tick

QuotaSpec == ConcInit /\ [][QuotaNext]_vars

\* The persisters, the Hub and one request handler.
PersistNext ==
    \/ \E id \in PersistIds : UC_Enter(1, id)
    \/ UC_Step(1)
    \/ \E id \in PersistIds : CC_Enter(1, id)
    \/ CC_Step(1)
    \/ \E p \in Persisters : P_Step(p)
    \/ TickWeek
    \/ HubChange

PersistSpec == Init /\ [][PersistNext]_vars

\* One request handler, the thread of background_persister, the clock and the
\* Hub.  A thread that can take a step takes one eventually (weak fairness for
\* a handler inside its request, which then holds cache_lock and cannot be
\* blocked); background_persister is scheduled fairly: it is not passed over
\* forever at cache_lock, which handlers keep taking and releasing (strong
\* fairness).
LiveNext ==
    \/ \E id \in PersistIds : UC_Enter(1, id)
    \/ UC_Step(1)
    \/ \E id \in PersistIds : CC_Enter(1, id)
    \/ CC_Step(1)
    \/ P_Step(1)
    \/ TickWeek
    \/ HubChange

LiveInit == Init /\ api

LiveSpec ==
    /\ LiveInit
    /\ [][LiveNext]_vars
    /\ WF_vars(UC_Step(1) \/ CC_Step(1))
    /\ SF_vars(P_Step(1))

\* ------------------------------------------------------------------- claims

\* The threads whose use_credit call has returned, and how.
Returned == {t \in Callers : req[t].pc = "idle" /\ resp[t].status # "none"}

Succeeded == {t \in Callers : req[t].pc = "idle" /\ resp[t].status = "success"}

Denied == {t \in Callers : req[t].pc = "idle" /\ resp[t].status = "limit_reached"}

\* C1: whatever the interleaving of the concurrent use_credit calls for one
\* identifier, starting from no usage, no count ever exceeds USAGE_LIMIT, and
\* whenever M of the calls have returned and none is in progress, exactly
\* min(M, USAGE_LIMIT) of them returned "success", the others "limit_reached",
\* and the count of the record is min(M, USAGE_LIMIT).
C1_NoLostUpdate ==
    /\ \A i \in 1..Len(cache) : cache[i].count <= USAGE_LIMIT
    /\ (cache_lock = NoThread /\ Returned # {}) =>
          LET M == Cardinality(Returned)
          IN  /\ Cardinality(Succeeded) = Min(M, USAGE_LIMIT)
              /\ Cardinality(Denied) = M - Min(M, USAGE_LIMIT)
              /\ Len(cache) = 1
              /\ cache[1].count = Min(M, USAGE_LIMIT)

\* More calls than USAGE_LIMIT have all returned: USAGE_LIMIT succeeded, one was denied.
C1_Witness ==
    /\ Returned = Callers
    /\ Cardinality(Succeeded) = USAGE_LIMIT
    /\ Cardinality(Denied) = NumCallers - USAGE_LIMIT
    /\ NumCallers > USAGE_LIMIT

\* Thread t takes the step in which its use_credit call returns.
UC_Returns(t) == req[t].pc \in {"uc_check", "uc_finish"} /\ req'[t].pc = "idle"

\* Thread t takes the step in which its check_credit call returns.
CC_Returns(t) == req[t].pc = "cc_eval" /\ req'[t].pc = "idle"

\* C2: within one window of an identifier's record the number of "success"
\* answers never exceeds USAGE_LIMIT, and a use_credit call that returns after
\* USAGE_LIMIT successes in the window returns "limit_reached" with
\* credits_remaining = 0.
C2_QuotaMonotone ==
    /\ [](\A id \in Ids : granted[id] <= USAGE_LIMIT)
    /\ [][\A t \in Callers :
            (UC_Returns(t) /\ granted[req[t].user_id] >= USAGE_LIMIT) =>
                /\ resp'[t].status = "limit_reached"
                /\ resp'[t].credits_remaining = 0
                /\ granted' = granted]_vars

\* A call was denied after USAGE_LIMIT successes in the window.
C2_Witness ==
    \E t \in Callers :
        /\ resp[t].status = "limit_reached"
        /\ resp[t].credits_remaining = 0
        /\ \E id \in Ids : granted[id] = USAGE_LIMIT

\* C8: through a use_credit call that returns "limit_reached" the cache is
\* what it was when the call entered cache_lock, and no step of a use_credit
\* call other than the one that returns "success" changes data_changed.
C8_DeniedChangesNothing ==
    [][\A t \in Callers :
          /\ (req[t].pc = "uc_check" /\ resp'[t].status = "limit_reached") =>
                (cache' = entry[t] /\ data_changed' = data_changed)
          /\ (req'[t] # req[t] /\ req[t].pc # "uc_finish"
                /\ (req[t].pc \in {"uc_lookup", "uc_reset_count", "uc_reset_week", "uc_check",
                                   "uc_inc_read", "uc_inc_write", "uc_new"}
                    \/ req'[t].pc = "uc_lookup")) =>
                data_changed' = data_changed]_vars

\* A call was denied while data_changed was clear and stayed clear.
C8_Witness ==
    \E t \in Callers :
        /\ resp[t].status = "limit_reached"
        /\ req[t].pc = "idle"
        /\ ~data_changed
        /\ cache # <<>>

\* Thread t has passed the window test of its request and is about to evaluate
\* the quota of the existing record it found.
AtQuota(t) == req[t].pc \in {"uc_check", "cc_eval"} /\ req[t].user_record # 0

\* C9 as amended: when the quota of an existing record is evaluated, the record
\* has been reset (count = 0, week_start = now) if now > week_start + 7 days,
\* and is otherwise untouched; at now = week_start + 7 days it is not reset.
C9_ResetWhenStrictlyLater ==
    \A t \in Callers :
        AtQuota(t) =>
            LET old == entry[t][req[t].user_record]
                cur == cache[req[t].user_record]
            IN  IF req[t].now > old.week_start + one_week_seconds
                THEN cur.count = 0 /\ cur.week_start = req[t].now /\ cur.id = old.id
                ELSE cur = old

\* check_credit has just reset a record that held USAGE_LIMIT uses.
C9_Witness ==
    \E t \in Callers :
        /\ req[t].pc = "cc_eval"
        /\ req[t].user_record # 0
        /\ entry[t][req[t].user_record].count = USAGE_LIMIT
        /\ req[t].now > entry[t][req[t].user_record].week_start + one_week_seconds
        /\ cache[req[t].user_record].count = 0
        /\ cache[req[t].user_record].week_start = req[t].now

\* C9 as claimed: the record has been reset whenever now >= week_start + 7 days.
C9_ResetAtBoundary ==
    \A t \in Callers :
        AtQuota(t) =>
            LET old == entry[t][req[t].user_record]
                cur == cache[req[t].user_record]
            IN  IF req[t].now >= old.week_start + one_week_seconds
                THEN cur.count = 0 /\ cur.week_start = req[t].now
                ELSE cur = old

\* C10 as amended: an answer that reports the limit as reached (check_credit
\* with no credit left, use_credit "limit_reached") carries week_start + 7
\* days of the record as it is after the window test; check_credit otherwise
\* reports 0 and use_credit "success" reports no reset timestamp.
C10_ResetTimestampWhenLimited ==
    [][\A t \in Callers :
          /\ (UC_Returns(t) /\ resp'[t].status = "limit_reached") =>
                resp'[t].reset_timestamp =
                    <<cache[req[t].user_record].week_start + one_week_seconds>>
          /\ (UC_Returns(t) /\ resp'[t].status = "success") =>
                resp'[t].reset_timestamp = <<>>
          /\ CC_Returns(t) =>
                resp'[t].reset_timestamp =
                    IF req[t].user_record # 0 /\ cache[req[t].user_record].count >= USAGE_LIMIT
                    THEN <<cache[req[t].user_record].week_start + one_week_seconds>>
                    ELSE <<0>>]_vars

\* A denial reports the end of a window that started at a reset.
C10_Witness ==
    \E t \in Callers :
        /\ resp[t].status \in {"limit_reached", "checked"}
        /\ resp[t].reset_timestamp # <<>>
        /\ resp[t].reset_timestamp[1] > 2 * one_week_seconds

\* C10 as claimed: every answer about an existing record carries week_start + 7 days.
C10_ResetTimestampAlways ==
    [][\A t \in Callers :
          ((UC_Returns(t) \/ CC_Returns(t)) /\ req[t].user_record # 0) =>
                resp'[t].reset_timestamp =
                    <<cache'[req[t].user_record].week_start + one_week_seconds>>]_vars

\* Persister p is between the list copy of its publish cycle and the end of its upload.
Publishing(p) == per[p].pc \in {"p_clear", "p_dump_count", "p_dump_week", "p_upload"}

\* Persister p writes its temporary file or uploads it.
Uploading(p) == per[p].pc \in {"p_dump_count", "p_dump_week", "p_upload"}

\* Persister p takes the step that ends a publish cycle whose upload succeeded / failed.
UploadSucceeds(p) == per[p].pc = "p_upload" /\ per'[p].pc = "sleep" /\ hub_up

UploadFails(p) == per[p].pc = "p_upload" /\ per'[p].pc = "sleep" /\ ~hub_up

\* C3: a publish cycle whose upload fails ends with data_changed set, and the
\* next cycle whose upload succeeds writes the contents the cache had at that
\* cycle's own list copy.
C3_FailedPublishRetried ==
    [][\A p \in Persisters :
          /\ UploadFails(p) => data_changed'
          /\ (UploadSucceeds(p) /\ retry) => remote' = snap[p]]_vars

\* C6: what a publish cycle uploads is the contents the cache had at the
\* instant of its list copy under cache_lock.
C6_SnapshotIsValueCopy ==
    \A p \in Persisters : per[p].pc = "p_upload" => per[p].temp_f = snap[p]

\* C7: at most one thread at a time is between the list copy and the end of the
\* upload of persist_data_to_hub, and a thread that writes or uploads the
\* temporary file does not hold cache_lock.
C7_OnePublisherCacheFree ==
    /\ Cardinality({p \in Persisters : Publishing(p)}) <= 1
    /\ \A p \in Persisters : Uploading(p) => cache_lock # PersisterThread(p)

\* During an upload a use_credit call holds cache_lock and is about to return
\* "success", while another persister is kept out.
C7_Witness ==
    \E p \in Persisters, t \in Callers :
        /\ per[p].pc = "p_upload"
        /\ persistence_lock = PersisterThread(p)
        /\ req[t].pc = "uc_finish"
        /\ cache_lock = HandlerThread(t)
        /\ \E q \in Persisters : q # p /\ per[q].pc = "sleep"

\* C5 as claimed: data_changed goes from set to clear only when an upload succeeds.
C5_SetUntilUploaded ==
    [][(data_changed /\ ~data_changed') => \E p \in Persisters : UploadSucceeds(p)]_vars

\* C5 as amended: data_changed goes from set to clear only in the step of a
\* publish cycle that follows its list copy, under cache_lock; a failed upload
\* ends with it set; and while no thread holds cache_lock it is clear with the
\* cache different from the remote document only while a publish cycle that
\* copied the cache is writing or uploading its temporary file.
C5_SetUntilSnapshot ==
    /\ [][(data_changed /\ ~data_changed') =>
             \E p \in Persisters :
                 /\ per[p].pc = "p_clear"
                 /\ cache_lock = PersisterThread(p)
                 /\ snap[p] = cache]_vars
    /\ [][\A p \in Persisters : UploadFails(p) => data_changed']_vars
    /\ []((~data_changed /\ cache_lock = NoThread /\ cache # remote) =>
             \E p \in Persisters : Uploading(p))

\* A mutation is not in the remote document, data_changed is clear and a
\* publish cycle that copied the mutated cache is uploading.
C5_Witness ==
    \E p \in Persisters :
        /\ per[p].pc = "p_upload"
        /\ ~data_changed
        /\ cache # remote
        /\ snap[p] = cache
        /\ retry

\* No handler is at a statement that follows the decision to reset, to
\* increment or to append (a request that stays out of these statements
\* mutates nothing), api exists and the Hub accepts uploads.
NoMutationAndHealthy ==
    /\ api
    /\ hub_up
    /\ \A t \in Callers :
          req[t].pc \in {"idle", "uc_lookup", "uc_check", "cc_lookup", "cc_eval"}

Converged == remote = cache /\ ~data_changed

\* C4: if from some point on no request mutates the cache and the Hub accepts
\* uploads, then from some point on the remote document equals the cache and
\* data_changed is clear.
C4_EventuallyPersisted == (<>[]NoMutationAndHealthy) => (<>[]Converged)

\* After a window reset and USAGE_LIMIT uses the remote document equals the
\* cache, data_changed is clear and nothing is in progress.
C4_Witness ==
    /\ Converged
    /\ Len(cache) = 1
    /\ cache[1].count = USAGE_LIMIT
    /\ cache[1].week_start > one_week_seconds
    /\ req[1].pc = "idle"
    /\ per[1].pc = "sleep"
    /\ hub_up

\* -------------------------------- check_credit at one instant (C12)

\* C12: a check_credit call that finds a record whose week_start is more than
\* 7 days before its now leaves it with count = 0 and week_start = now and
\* reports USAGE_LIMIT credits; a check_credit call at the same instant as
\* that reset (week_start = now, nothing granted since) reports the same and
\* leaves the cache as it found it.
C12_SameInstantChecksAgree ==
    [][\A t \in Callers :
          (CC_Returns(t) /\ req[t].user_record # 0) =>
              LET old == entry[t][req[t].user_record]
                  cur == cache'[req[t].user_record]
                  first == WindowExpired(old.week_start, req[t].now)
                  later == old.week_start = req[t].now /\ granted[req[t].user_id] = 0
              IN  /\ (first \/ later) =>
                        /\ cur.count = 0
                        /\ cur.week_start = req[t].now
                        /\ resp'[t].credits_remaining = USAGE_LIMIT
                        /\ ~resp'[t].limit_reached
                  /\ later => cache' = entry[t]]_vars

\* A check_credit call is answering for a record that an earlier check_credit
\* call reset at this same instant.
C12_Witness ==
    \E t \in Callers :
        /\ req[t].pc = "cc_eval"
        /\ req[t].user_record # 0
        /\ req[t].now > one_week_seconds
        /\ entry[t][req[t].user_record].week_start = req[t].now
        /\ entry[t][req[t].user_record].count = 0
        /\ granted[req[t].user_id] = 0
        /\ cache = entry[t]

\* -------------------------------- the count after use_credit (C15)

\* C15: when a use_credit call returns, with "success" or with
\* "limit_reached", the record of the identifier it was called for has a count
\* from 0 to USAGE_LIMIT.
C15_CountInRangeAfterUse ==
    [][\A t \in Callers :
          UC_Returns(t) =>
              LET i == FindRecord(cache', req[t].user_id)
              IN  /\ i # 0
                  /\ cache'[i].count >= 0
                  /\ cache'[i].count <= USAGE_LIMIT]_vars

\* A use_credit call has returned "success" with the last credit of the
\* window, and another record is still below the limit.
C15_Witness ==
    \E t \in Callers :
        /\ req[t].pc = "idle"
        /\ resp[t].status = "success"
        /\ resp[t].credits_remaining = 0
        /\ \E i, j \in 1..Len(cache) :
             cache[i].count = USAGE_LIMIT /\ cache[j].count < USAGE_LIMIT

\* -------------------------------- week_start over time (C16)

\* C16: with a clock that never goes back, no step lowers the week_start of a
\* record; a step changes it only as the window reset of a check_credit or
\* use_credit call whose now is more than 7 days after the old value, and
\* then to that call's now.
C16_WeekStartMonotone ==
    [][\A i \in 1..Len(cache) :
          /\ i <= Len(cache')
          /\ cache'[i].id = cache[i].id
          /\ cache'[i].week_start >= cache[i].week_start
          /\ cache'[i].week_start # cache[i].week_start =>
                \E t \in Callers :
                    /\ req[t].pc \in {"uc_reset_week", "cc_reset_week"}
                    /\ req'[t].pc # req[t].pc
                    /\ req[t].user_record = i
                    /\ req[t].now > cache[i].week_start + one_week_seconds
                    /\ cache'[i].week_start = req[t].now
                    /\ req[t].now <= now]_vars

\* A window has rolled over: the record of a request that is past its reset
\* has a week_start later than the one the request found.
C16_Witness ==
    \E t \in Callers :
        /\ req[t].pc \in {"uc_check", "cc_set_dirty"}
        /\ req[t].user_record # 0
        /\ cache[req[t].user_record].week_start = req[t].now
        /\ entry[t][req[t].user_record].week_start < req[t].now
        /\ Len(cache) = 2

\* -------------------------------- what check_credit may change (C18)

\* Thread t takes a step of a check_credit call.
CC_Steps(t) ==
    /\ req'[t] # req[t]
    /\ \/ req[t].pc \in {"cc_lookup", "cc_reset_count", "cc_reset_week", "cc_set_dirty", "cc_eval"}
       \/ req'[t].pc = "cc_lookup"

\* C18: a check_credit call creates no record, raises no count and touches no
\* record but the one of its identifier, which it either leaves alone or
\* resets (count = 0, week_start = now); it sets data_changed when it has
\* reset the record and writes the flag in no other case; it answers
\* max(0, USAGE_LIMIT - count) of the record as it then is, USAGE_LIMIT for an
\* identifier without a record.
C18_CheckCreditFrame ==
    [][\A t \in Callers :
          /\ CC_Returns(t) =>
                LET i == req[t].user_record
                    old == entry[t]
                    left == USAGE_LIMIT - cache'[i].count
                IN  /\ Len(cache') = Len(old)
                    /\ \A j \in 1..Len(old) : j # i => cache'[j] = old[j]
                    /\ i = FindRecord(old, req[t].user_id)
                    /\ i = 0 => resp'[t].credits_remaining = USAGE_LIMIT
                    /\ i # 0 =>
                          /\ cache'[i].id = old[i].id
                          /\ cache'[i].count <= old[i].count
                          /\ \/ cache'[i] = old[i]
                             \/ /\ cache'[i].count = 0
                                /\ cache'[i].week_start = req[t].now
                                /\ req[t].now > old[i].week_start + one_week_seconds
                                /\ data_changed'
                          /\ resp'[t].credits_remaining = (IF left > 0 THEN left ELSE 0)
          /\ (CC_Steps(t) /\ data_changed' # data_changed) =>
                (req[t].pc = "cc_set_dirty" /\ cache # entry[t])
          /\ (CC_Steps(t) /\ req[t].pc = "cc_lookup" /\ req'[t].pc = "cc_eval") =>
                cache = entry[t]]_vars

\* check_credit has reset a record and set data_changed, which was clear
\* because the record had been uploaded.
C18_Witness ==
    \E t \in Callers :
        /\ req[t].pc = "cc_eval"
        /\ req[t].user_record # 0
        /\ cache[req[t].user_record].count = 0
        /\ entry[t][req[t].user_record].count > 0
        /\ data_changed
        /\ remote = entry[t]

\* -------------------------------- mutations a publish cycle did not copy (C17)

\* C17: while data_changed is clear and no request is inside cache_lock, the
\* cache is what the publish cycle under way copied at line 99; a cycle whose
\* upload succeeds after the cache has moved on from that copy ends with
\* data_changed set, and a cycle that ends with the flag clear has uploaded
\* the cache as it is.
C17_UncopiedMutationKeepsDirty ==
    /\ [](\A p \in Persisters :
            (Uploading(p) /\ ~data_changed /\ cache_lock = NoThread) => cache = snap[p])
    /\ [][\A p \in Persisters :
            (UploadSucceeds(p) /\ cache_lock = NoThread) =>
                /\ cache # snap[p] => data_changed'
                /\ ~data_changed' => remote' = cache']_vars

\* use_credit changed the cache after the list copy of a publish cycle that is
\* about to upload successfully, and data_changed is set again.
C17_Witness ==
    \E p \in Persisters :
        /\ per[p].pc = "p_upload"
        /\ hub_up
        /\ snap[p] # <<>>
        /\ cache # snap[p]
        /\ cache_lock = NoThread
        /\ data_changed
        /\ ~retry

\* -------------------------------- start-up: load_initial_data (57-88), lines 318-326

\* json.loads of the text json.dump wrote for a list of records: a new list of
\* new dicts with the three keys of each object.
JsonLoads(text) ==
    [i \in 1..Len(text) |->
        [id |-> text[i].id, count |-> text[i].count, week_start |-> text[i].week_start]]

\* Lines 320 and 59-62: load_initial_data enters "with cache_lock:"; without
\* api it returns at once, leaving the with block.
L_Enter ==
    /\ boot = "import"
    /\ CacheLockFree
    /\ IF api
       THEN cache_lock' = MainThread /\ boot' = "l_download"
       ELSE cache_lock' = cache_lock /\ boot' = "loaded"
    /\ UNCHANGED <<cache, data_changed, persistence_lock, api, now, remote, hub_up>>
    /\ UNCHANGED <<remote_doc, hub_silent>>
    /\ UNCHANGED <<handlerVars, persisterVars, enhanceVars>>

\* Lines 64-71 and 82-87: hf_hub_download, called inside the with block,
\* returns the path of the downloaded file, or raises: EntryNotFoundError for
\* a dataset without the file, another exception when the Hub cannot be
\* reached.  Both handlers assign [] and the with block ends.
L_Download ==
    /\ boot = "l_download"
    /\ ~hub_silent
    /\ IF hub_up /\ remote_doc # "missing"
       THEN /\ boot' = "l_read"
            /\ UNCHANGED <<cache, cache_lock>>
       ELSE /\ cache' = <<>>
            /\ cache_lock' = NoThread
            /\ boot' = "loaded"
    /\ UNCHANGED <<data_changed, persistence_lock, api, now, remote, hub_up>>
    /\ UNCHANGED <<remote_doc, hub_silent>>
    /\ UNCHANGED <<handlerVars, persisterVars, enhanceVars>>

L_Read_Uncaught ==
    /\ boot = "l_read"
    /\ cache' = (IF remote_doc = "array" THEN JsonLoads(remote) ELSE <<>>)
    /\ cache_lock' = NoThread
    /\ boot' = (IF remote_doc = "malformed" THEN "failed" ELSE "loaded")
    /\ UNCHANGED <<data_changed, persistence_lock, api, now, remote, hub_up>>
    /\ UNCHANGED <<remote_doc, hub_silent>>
    /\ UNCHANGED <<handlerVars, persisterVars, enhanceVars>>

\* Lines 72-81: the file is read; text that is not empty goes through
\* json.loads, whose JSONDecodeError is caught at line 79; empty text and
\* malformed text both give []; the with block ends.
L_Read ==
    /\ boot = "l_read"
    /\ cache' = (IF remote_doc = "array" THEN JsonLoads(remote) ELSE <<>>)
    /\ cache_lock' = NoThread
    /\ boot' = "loaded"
    /\ UNCHANGED <<data_changed, persistence_lock, api, now, remote, hub_up>>
    /\ UNCHANGED <<remote_doc, hub_silent>>
    /\ UNCHANGED <<handlerVars, persisterVars, enhanceVars>>

\* Lines 321-324: load_initial_data has returned; the daemon thread of
\* background_persister is started and the application serves requests.
L_StartPersister ==
    /\ boot = "loaded"
    /\ boot' = "served"
    /\ UNCHANGED sharedVars
    /\ UNCHANGED <<remote_doc, hub_silent>>
    /\ UNCHANGED <<handlerVars, persisterVars, enhanceVars>>

\* Bound: the handler threads that serve one request each after start-up.
NumStarters == 2

Starters == 1..NumStarters

\* The module is imported with the dataset in any of its conditions, with or
\* without HF_TOKEN, with the Hub reachable or not.
StartInit ==
    /\ StoreInit
    /\ remote_doc \in DocKinds
    /\ remote \in (IF remote_doc = "array" THEN StartDocs ELSE {<<>>})
    /\ boot = "import"
    /\ gemini_keys = KeyPool

\* Start-up, then handler threads with one request each and the thread of
\* background_persister; the clock stands still.
StartNext ==
    \/ L_Enter
    \/ L_Download
    \/ L_Read
    \/ L_StartPersister
    \/ /\ boot = "served"
       /\ \/ \E t \in Starters, id \in Ids : resp[t].status = "none" /\ UC_Enter(t, id)
          \/ \E t \in Starters : UC_Step(t)
          \/ \E t \in Starters, id \in Ids : resp[t].status = "none" /\ CC_Enter(t, id)
          \/ \E t \in Starters : CC_Step(t)
          \/ P_Step(1)

StartSpec == StartInit /\ [][StartNext]_vars

\* C11: whatever the dataset file is at start-up (missing, empty, malformed)
\* or when it cannot be fetched, and also without api, load_initial_data
\* returns without raising: start-up never takes its except branch, the load
\* ends with an empty cache and cache_lock released, and from there
\* background_persister is started; nothing runs before that.  A file that
\* holds an array is loaded as it is.
C11_LoadNeverFails ==
    /\ boot # "failed"
    /\ (boot = "loaded" /\ (~api \/ ~hub_up \/ remote_doc # "array")) =>
          (cache = <<>> /\ cache_lock = NoThread)
    /\ (boot = "loaded" /\ api /\ hub_up /\ remote_doc = "array") => cache = remote
    /\ boot = "loaded" => ENABLED L_StartPersister
    /\ boot # "served" => \A p \in Persisters : per[p] = IdlePer

\* The dataset file was malformed, the cache is empty and the thread of
\* background_persister runs.
C11_Witness ==
    /\ boot = "served"
    /\ api
    /\ hub_up
    /\ remote_doc = "malformed"
    /\ cache = <<>>
    /\ per[1].pc = "p_check"

\* -------------------------------- what happens under cache_lock (C13)

\* C13: no thread holds cache_lock while it downloads from or uploads to the
\* Hub, and a thread that reads or writes the records or data_changed holds
\* cache_lock as it does so: the start-up thread when it assigns the cache, a
\* handler in every step of its request, a persister when it tests
\* data_changed (line 94), reads a record for json.dump (line 107) or sets
\* data_changed again (line 121).
C13_LockDisciplineAsClaimed ==
    /\ [](boot = "l_download" => cache_lock # MainThread)
    /\ [](\A p \in Persisters : per[p].pc = "p_upload" => cache_lock # PersisterThread(p))
    /\ [][(boot = "l_read" /\ boot' # boot) => cache_lock = MainThread]_vars
    /\ [][\A t \in Callers :
            (req'[t] # req[t] /\ req[t].pc # "idle") => cache_lock = HandlerThread(t)]_vars
    /\ [][\A p \in Persisters :
            (per'[p] # per[p] /\ per[p].pc \in {"p_check", "p_dump_count", "p_dump_week"}) =>
                cache_lock = PersisterThread(p)]_vars
    /\ [][\A p \in Persisters : UploadFails(p) => cache_lock = PersisterThread(p)]_vars

\* -------------------------------- one record per identifier (C14)

\* C14: no two records of the cache have the same id, after the start-up load
\* and in every state of every interleaving of check_credit and use_credit
\* calls.
C14_OneRecordPerId ==
    \A i, j \in 1..Len(cache) : cache[i].id = cache[j].id => i = j

\* Two threads have each returned from use_credit for the same identifier,
\* which had no record after start-up, and the loaded cache held another one.
C14_Witness ==
    \E t1, t2 \in Starters :
        /\ t1 # t2
        /\ resp[t1].status = "success"
        /\ resp[t2].status = "success"
        /\ resp[t1].credits_remaining # resp[t2].credits_remaining
        /\ Len(cache) = Len(remote) + 1
        /\ Len(remote) = 1

\* -------------------------------- a Hub that does not answer (C19)

\* The Hub stops answering requests at all, or answers again.  api.upload_file
\* is called without a timeout (lines 110-116): while the Hub is silent the
\* call neither returns nor raises.
HubSilence ==
    /\ hub_silent' = ~hub_silent
    /\ UNCHANGED sharedVars
    /\ UNCHANGED <<boot, remote_doc>>
    /\ UNCHANGED <<handlerVars, persisterVars, enhanceVars>>

\* LiveSpec with a Hub that may also fall silent; the threads are scheduled
\* as in LiveSpec.
HangNext ==
    \/ \E id \in PersistIds : UC_Enter(1, id)
    \/ UC_Step(1)
    \/ \E id \in PersistIds : CC_Enter(1, id)
    \/ CC_Step(1)
    \/ P_Step(1)
    \/ TickWeek
    \/ HubChange
    \/ HubSilence

HangSpec ==
    /\ LiveInit
    /\ [][HangNext]_vars
    /\ WF_vars(UC_Step(1) \/ CC_Step(1))
    /\ SF_vars(P_Step(1))

\* C19: every publish cycle of background_persister that has reached its
\* upload ends, with the thread back at time.sleep, whether the upload
\* succeeds, fails or is never answered.
C19_CycleAlwaysEnds == (per[1].pc = "p_upload") ~> (per[1].pc = "sleep")

\* -------------------------------- enhance_animation_prompt (137-255)

\* What request.files holds for 'image'.
Images == {"none", "corrupt", "image"}

\* How one call of Gemini with one key ends: a JSON object in the answer
\* ("ok"), an exception of the API ("api_error"), an answer without braces
\* ("no_json", line 240) or with braces around text that is not JSON
\* ("bad_json", line 243).
Outcomes == {"ok", "api_error", "no_json", "bad_json"}

\* Lines 141-156 and 222: the early returns (500 without keys, 400 without an
\* image or with one that Image.open rejects); otherwise the loop over
\* range(max_retries) starts.
E_Start(r, image) ==
    /\ enh[r].pc = "idle"
    /\ enh' = [enh EXCEPT ![r] =
                  IF Len(gemini_keys) = 0 THEN [IdleEnh EXCEPT !.status = 500]
                  ELSE IF image # "image" THEN [IdleEnh EXCEPT !.status = 400]
                  ELSE [IdleEnh EXCEPT !.pc = "e_pick"]]
    /\ UNCHANGED <<gemini_keys, key_index>>
    /\ UNCHANGED sharedVars
    /\ UNCHANGED <<boot, remote_doc, hub_silent>>
    /\ UNCHANGED <<handlerVars, persisterVars>>

\* Lines 223-227: the next attempt takes, under key_rotation_lock, the key at
\* key_index and moves key_index on by one, wrapping around.
E_Pick(r) ==
    /\ enh[r].pc = "e_pick"
    /\ enh[r].attempt < Len(gemini_keys)
    /\ enh' = [enh EXCEPT ![r].current_key_log_index = key_index, ![r].pc = "e_call"]
    /\ key_index' = (key_index + 1) % Len(gemini_keys)
    /\ UNCHANGED gemini_keys
    /\ UNCHANGED sharedVars
    /\ UNCHANGED <<boot, remote_doc, hub_silent>>
    /\ UNCHANGED <<handlerVars, persisterVars>>

\* Lines 230-252: the call with current_key.  An answer with a JSON object is
\* returned with status 200.  A failure is logged and the loop goes on; the
\* log line of the JSONDecodeError handler (250) formats cleaned_response,
\* which line 242 assigns only after the brace test: when the answer has no
\* braces and no earlier attempt of the request assigned it, the handler
\* itself raises UnboundLocalError and the request ends with status 500.
E_Call(r, outcome) ==
    /\ enh[r].pc = "e_call"
    /\ LET current_key == gemini_keys[enh[r].current_key_log_index + 1]
           failed == [enh[r] EXCEPT !.tried = enh[r].tried \cup {current_key},
                                    !.attempt = enh[r].attempt + 1,
                                    !.pc = "e_pick"]
       IN  enh' = [enh EXCEPT ![r] =
               CASE outcome = "ok" -> [enh[r] EXCEPT !.pc = "idle", !.status = 200]
                 [] outcome = "api_error" -> failed
                 [] outcome = "bad_json" -> [failed EXCEPT !.cleaned_response = TRUE]
                 [] outcome = "no_json" ->
                        IF enh[r].cleaned_response THEN failed
                        ELSE [failed EXCEPT !.pc = "idle", !.status = 500]]
    /\ UNCHANGED <<gemini_keys, key_index>>
    /\ UNCHANGED sharedVars
    /\ UNCHANGED <<boot, remote_doc, hub_silent>>
    /\ UNCHANGED <<handlerVars, persisterVars>>

\* Lines 254-255: range(max_retries) is exhausted; status 503.
E_GiveUp(r) ==
    /\ enh[r].pc = "e_pick"
    /\ enh[r].attempt = Len(gemini_keys)
    /\ enh' = [enh EXCEPT ![r].pc = "idle", ![r].status = 503]
    /\ UNCHANGED <<gemini_keys, key_index>>
    /\ UNCHANGED sharedVars
    /\ UNCHANGED <<boot, remote_doc, hub_silent>>
    /\ UNCHANGED <<handlerVars, persisterVars>>

\* The application serves, with or without keys configured.
EnhanceInit ==
    /\ StoreInit
    /\ api
    /\ hub_up
    /\ remote = <<>>
    /\ remote_doc = "array"
    /\ boot = "served"
    /\ gemini_keys \in {<<>>, KeyPool}

\* NumRequests threads serve enhancement requests, one after another each.
EnhanceNext ==
    \E r \in Requests :
        \/ \E image \in Images : E_Start(r, image)
        \/ E_Pick(r)
        \/ \E outcome \in Outcomes : E_Call(r, outcome)
        \/ E_GiveUp(r)

EnhanceSpec == EnhanceInit /\ [][EnhanceNext]_vars

\* C20: a request that was answered with status 503 has tried every key of
\* gemini_keys, and each of them failed for it.
C20_UnavailableOnlyAfterAllKeys ==
    \A r \in Requests :
        enh[r].status = 503 =>
            enh[r].tried = {gemini_keys[k] : k \in 1..Len(gemini_keys)}

====
